---------------------------- MODULE Spec2Model ----------------------------
(***************************************************************************)
(* postcss-inline-extract: extraction of inline styles into style rules.   *)
(*                                                                         *)
(* A string is a sequence of one-character strings, so that trimming,      *)
(* splitting, joining and sorting are computed character by character as   *)
(* the JavaScript string methods compute them.                             *)
(***************************************************************************)
EXTENDS Integers, Sequences, FiniteSets, TLC

(***************************************************************************)
(* Bounds of the model.                                                    *)
(***************************************************************************)
\* style-bearing elements plus style rules visited in one extraction
MaxNodes == 3
\* length of the strings enumerated for formatProps
MaxStyleLen == 5
\* length of the selectors enumerated for compareSelector
MaxSelLen == 3
\* length of a strategy list enumerated for generateSelector
MaxStrategies == 2
\* period of the sequence of values returned by Math.random()
MaxDraws == 2
\* rules in the array handed to format
MaxFormatRules == 3
\* the indent handed to format
MaxIndent == 2
\* length of the class attribute texts enumerated for formatClass
MaxClassLen == 4

(***************************************************************************)
(* Characters and the JavaScript string primitives the code uses.          *)
(***************************************************************************)
Digits == <<"0", "1", "2", "3", "4", "5", "6", "7", "8", "9">>

Letters == <<"a", "b", "c", "d", "e", "f", "g", "h", "i", "j", "k", "l", "m",
             "n", "o", "p", "q", "r", "s", "t", "u", "v", "w", "x", "y", "z">>

IsDigit(c) == \E i \in 1..Len(Digits) : Digits[i] = c

IsLetter(c) == \E i \in 1..Len(Letters) : Letters[i] = c

\* UTF-16 code unit of a character (the order of the default Array sort)
CharCode(c) ==
  IF IsDigit(c) THEN 47 + (CHOOSE i \in 1..Len(Digits) : Digits[i] = c)
  ELSE IF IsLetter(c) THEN 96 + (CHOOSE i \in 1..Len(Letters) : Letters[i] = c)
  ELSE CASE c = "\t" -> 9
         [] c = "\n" -> 10
         [] c = " " -> 32
         [] c = "#" -> 35
         [] c = "(" -> 40
         [] c = ")" -> 41
         [] c = "+" -> 43
         [] c = "," -> 44
         [] c = "-" -> 45
         [] c = "." -> 46
         [] c = "/" -> 47
         [] c = ":" -> 58
         [] c = ";" -> 59
         [] c = ">" -> 62
         [] c = "~" -> 126

\* the characters the regular expression class \s and String trim() treat as space
IsSpace(c) == c \in {" ", "\t", "\n"}

RECURSIVE TrimStart(_)
TrimStart(s) ==
  IF s # <<>> /\ IsSpace(Head(s)) THEN TrimStart(Tail(s)) ELSE s

RECURSIVE TrimEnd(_)
TrimEnd(s) ==
  IF s # <<>> /\ IsSpace(s[Len(s)]) THEN TrimEnd(SubSeq(s, 1, Len(s) - 1)) ELSE s

\* String.prototype.trim
trim(s) == TrimEnd(TrimStart(s))

\* String.prototype.split with a one-character separator
RECURSIVE split(_, _)
split(s, sep) ==
  IF \E i \in 1..Len(s) : s[i] = sep
  THEN LET i == CHOOSE k \in 1..Len(s) :
                  s[k] = sep /\ \A j \in 1..(k - 1) : s[j] # sep
       IN <<SubSeq(s, 1, i - 1)>> \o split(SubSeq(s, i + 1, Len(s)), sep)
  ELSE <<s>>

\* Array.prototype.join
RECURSIVE join(_, _)
join(list, sep) ==
  IF list = <<>> THEN <<>>
  ELSE IF Len(list) = 1 THEN list[1]
  ELSE list[1] \o sep \o join(Tail(list), sep)

\* a < b in the order of the default Array sort (by UTF-16 code units)
RECURSIVE StrLess(_, _)
StrLess(a, b) ==
  IF a = <<>> THEN b # <<>>
  ELSE IF b = <<>> THEN FALSE
  ELSE IF Head(a) = Head(b) THEN StrLess(Tail(a), Tail(b))
  ELSE CharCode(Head(a)) < CharCode(Head(b))

RECURSIVE SortInsert(_, _)
SortInsert(x, list) ==
  IF list = <<>> THEN <<x>>
  ELSE IF StrLess(x, Head(list)) THEN <<x>> \o list
  ELSE <<Head(list)>> \o SortInsert(x, Tail(list))

\* Array.prototype.sort with no comparator (stable, ascending)
RECURSIVE sort(_)
sort(list) ==
  IF list = <<>> THEN <<>>
  ELSE SortInsert(list[Len(list)], sort(SubSeq(list, 1, Len(list) - 1)))

\* replace(/^([^c])/, 'c$1'): prefix c unless the string is empty or starts with c
PrefixUnless(s, c) ==
  IF s # <<>> /\ Head(s) # c THEN <<c>> \o s ELSE s

RECURSIVE DropSpaces(_)
DropSpaces(s) ==
  IF s # <<>> /\ Head(s) = " " THEN DropSpaces(Tail(s)) ELSE s

\* replace(/  +/g, ' '): every run of two or more spaces becomes one space
RECURSIVE CollapseSpaces(_)
CollapseSpaces(s) ==
  IF s = <<>> THEN <<>>
  ELSE IF Head(s) = " " THEN <<" ">> \o CollapseSpaces(DropSpaces(Tail(s)))
  ELSE <<Head(s)>> \o CollapseSpaces(Tail(s))

\* replace(/c/g, to): every occurrence of the character c becomes the string to
RECURSIVE ReplaceChar(_, _, _)
ReplaceChar(s, c, to) ==
  IF s = <<>> THEN <<>>
  ELSE (IF Head(s) = c THEN to ELSE <<Head(s)>>) \o ReplaceChar(Tail(s), c, to)

\* replace(/ +,/g, ', '): a run of spaces followed by a comma becomes ', '
RECURSIVE SpacesBeforeComma(_)
SpacesBeforeComma(s) ==
  IF s = <<>> THEN <<>>
  ELSE IF Head(s) = " "
  THEN LET rest == DropSpaces(s)
       IN IF rest # <<>> /\ Head(rest) = ","
          THEN <<",", " ">> \o SpacesBeforeComma(Tail(rest))
          ELSE SubSeq(s, 1, Len(s) - Len(rest)) \o SpacesBeforeComma(rest)
  ELSE <<Head(s)>> \o SpacesBeforeComma(Tail(s))

(***************************************************************************)
(* The formatters of extract.ts.                                           *)
(***************************************************************************)
formatClass(selector) ==
  ReplaceChar(CollapseSpaces(PrefixUnless(trim(selector), ".")), " ", <<".">>)

formatId(selector) == PrefixUnless(trim(selector), "#")

formatSelector(selector) ==
  CollapseSpaces(SpacesBeforeComma(ReplaceChar(trim(selector), ">", <<" ", ">", " ">>)))

\* prop.split(':').map(kv => kv.trim()).join(': ')
FormatProp(prop) ==
  LET parts == split(prop, ":")
  IN join([i \in 1..Len(parts) |-> trim(parts[i])], <<":", " ">>)

\* the reduce of formatProps: fragments that trim to the empty string are dropped
RECURSIVE FormatFragments(_)
FormatFragments(frags) ==
  IF frags = <<>> THEN <<>>
  ELSE (IF trim(Head(frags)) # <<>> THEN <<FormatProp(Head(frags))>> ELSE <<>>)
       \o FormatFragments(Tail(frags))

formatProps(props) == sort(FormatFragments(split(props, ";")))

(***************************************************************************)
(* generateSelector.  Math.random() is a periodic sequence rnd of values,  *)
(* each value given by the base-36 digits of its fraction (the value 0 has *)
(* none); k is the number of values already consumed.                      *)
(***************************************************************************)
Random(rnd, k) == rnd[((k - 1) % Len(rnd)) + 1]

\* Number.prototype.toString(36) of a value in [0, 1)
toString36(digits) ==
  IF digits = <<>> THEN <<"0">> ELSE <<"0", ".">> \o digits

\* String.prototype.slice(start)
slice(s, start) == SubSeq(s, start + 1, Len(s))

\* template.test(hash) for template = /^\d/
template(hash) == hash # <<>> /\ IsDigit(Head(hash))

\* the do/while loop of generateHash; returns the hash and the values consumed
RECURSIVE generateHash(_, _)
generateHash(rnd, k) ==
  LET hash == slice(toString36(Random(rnd, k + 1)), 2)
  IN IF template(hash) THEN generateHash(rnd, k + 1)
     ELSE [hash |-> hash, k |-> k + 1]

\* the callback of the reduce: (name || type === 'class') ? ... : type === 'id' ? ... : ...
RECURSIVE SelectorReduce(_, _, _, _, _, _)
SelectorReduce(name, types, className, id, rnd, k) ==
  IF types = <<>> THEN name
  ELSE LET type == Head(types)
       IN IF name # <<>> \/ type = "class"
          THEN SelectorReduce(formatClass(className), Tail(types), className, id, rnd, k)
          ELSE IF type = "id"
          THEN SelectorReduce(formatId(id), Tail(types), className, id, rnd, k)
          ELSE LET h == generateHash(rnd, k)
               IN SelectorReduce(<<".">> \o h.hash, Tail(types), className, id, rnd, h.k)

\* faulty variant: the callback read as name || (type === 'class' ? ... : ...)
RECURSIVE SelectorReduceKeepsName(_, _, _, _, _, _)
SelectorReduceKeepsName(name, types, className, id, rnd, k) ==
  IF types = <<>> THEN name
  ELSE LET type == Head(types)
       IN IF name # <<>>
          THEN SelectorReduceKeepsName(name, Tail(types), className, id, rnd, k)
          ELSE IF type = "class"
          THEN SelectorReduceKeepsName(formatClass(className), Tail(types),
                                       className, id, rnd, k)
          ELSE IF type = "id"
          THEN SelectorReduceKeepsName(formatId(id), Tail(types), className, id, rnd, k)
          ELSE LET h == generateHash(rnd, k)
               IN SelectorReduceKeepsName(<<".">> \o h.hash, Tail(types),
                                          className, id, rnd, h.k)

generateSelectorKeepsName(className, id, selector, rnd) ==
  SelectorReduceKeepsName(<<>>, selector, className, id, rnd, 0)

\* faulty variant: only the first strategy of the list is tried
generateSelectorFirstOnly(className, id, selector, rnd) ==
  SelectorReduce(<<>>, <<Head(selector)>>, className, id, rnd, 0)

generateSelector(className, id, selector, rnd) ==
  SelectorReduce(<<>>, selector, className, id, rnd, 0)

(***************************************************************************)
(* compareSelector and mergeProps.                                         *)
(***************************************************************************)
\* /[\s>+~(),]/.test(selector)
HasCombinator(selector) ==
  \E i \in 1..Len(selector) :
    IsSpace(selector[i]) \/ selector[i] \in {">", "+", "~", "(", ")", ","}

\* faulty variant: the token lists are compared without being sorted
compareSelectorUnsorted(selector1, selector2) == selector1 = selector2

compareSelector(selector1, selector2) ==
  IF HasCombinator(selector1) \/ HasCombinator(selector2)
  THEN selector1 = selector2
  ELSE join(sort(split(selector1, ".")), <<".">>)
       = join(sort(split(selector2, ".")), <<".">>)

\* props.indexOf(prop) < 0
NotIn(props, prop) == \A i \in 1..Len(props) : props[i] # prop

\* the for loop of mergeProps over props2
RECURSIVE PushMissing(_, _)
PushMissing(props, props2) ==
  IF props2 = <<>> THEN props
  ELSE PushMissing(IF NotIn(props, Head(props2)) THEN Append(props, Head(props2))
                   ELSE props,
                   Tail(props2))

mergeProps(props1, props2) == sort(PushMissing(props1, props2))

(***************************************************************************)
(* The body of the two loops of extractStyles.                             *)
(***************************************************************************)
\* result.findIndex(style => compareSelector(style.selector, value)); 0 for "not found"
findIndex(result, value) ==
  IF \E i \in 1..Len(result) : compareSelector(result[i].selector, value)
  THEN CHOOSE i \in 1..Len(result) :
         /\ compareSelector(result[i].selector, value)
         /\ \A j \in 1..(i - 1) : ~compareSelector(result[j].selector, value)
  ELSE 0

\* faulty variant: every incoming selector is pushed as a new entry
MergeStyleAlwaysPush(result, value, props) ==
  Append(result, [selector |-> value, props |-> props])

\* faulty variant: a merged entry is taken out and pushed again at the end
MergeStyleMoveToEnd(result, value, props) ==
  LET index == findIndex(result, value)
  IN IF index > 0
     THEN Append(SubSeq(result, 1, index - 1) \o SubSeq(result, index + 1, Len(result)),
                 [selector |-> result[index].selector,
                  props |-> mergeProps(result[index].props, props)])
     ELSE Append(result, [selector |-> value, props |-> props])

\* merge into the entry found, or push a new entry
MergeStyle(result, value, props) ==
  LET index == findIndex(result, value)
  IN IF index > 0
     THEN [result EXCEPT ![index].props = mergeProps(result[index].props, props)]
     ELSE Append(result, [selector |-> value, props |-> props])

\* faulty variant: the test of the derived selector is missing
ExtractElementNoSkip(result, el, value) ==
  MergeStyle(result, value, formatProps(el.style))

\* one iteration of the loop over the elements carrying a style attribute
ExtractElement(result, el, value) ==
  IF value # <<>> THEN MergeStyle(result, value, formatProps(el.style)) ELSE result

\* rule.nodes.filter(node => node.type === 'decl').map(decl => `${decl.prop}: ${decl.value}`)
RECURSIVE RuleProps(_)
RuleProps(nodes) ==
  IF nodes = <<>> THEN <<>>
  ELSE (IF Head(nodes).type = "decl"
        THEN <<Head(nodes).prop \o <<":", " ">> \o Head(nodes).value>>
        ELSE <<>>)
       \o RuleProps(Tail(nodes))

\* the callback of walkRules
ExtractRule(result, rule) ==
  MergeStyle(result, formatSelector(rule.selector), RuleProps(rule.nodes))

(***************************************************************************)
(* format.                                                                 *)
(***************************************************************************)
\* ''.padStart(indent, ' ')
padStart(indent) == [i \in 1..indent |-> " "]

\* the lines pushed for the properties of one rule
PropLines(props, indent) ==
  [i \in 1..Len(props) |-> padStart(indent) \o props[i] \o <<";">>]

\* the array line after the loop over styles
RECURSIVE FormatLines(_, _)
FormatLines(styles, indent) ==
  IF styles = <<>> THEN <<>>
  ELSE <<Head(styles).selector \o <<" ", "{">>>>
       \o PropLines(Head(styles).props, indent)
       \o << <<"}", "\n">> >>
       \o FormatLines(Tail(styles), indent)

\* faulty variant: the indent is not used, two spaces are written
formatTwoSpaces(styles, indent) == join(FormatLines(styles, 2), <<"\n">>)

format(styles, indent) == join(FormatLines(styles, indent), <<"\n">>)

(***************************************************************************)
(* Inputs of one extraction.                                               *)
(***************************************************************************)
\* all sequences over S of length lo..hi
SeqsOf(S, lo, hi) == UNION {[1..n -> S] : n \in lo..hi}

SelectorTypes == {"class", "id", "hash"}

\* the selector option, as the list [selector] when it is a single type
StrategyLists == SeqsOf(SelectorTypes, 1, MaxStrategies)

\* the selector options of the extractions explored
Strategies == {<<"class">>, <<"class", "id">>, <<"id", "class">>, <<"hash">>}

\* values Math.random() may return, by the base-36 digits of the fraction:
\* 0, 7/36 and 10/36 + 7/1296
RandomValues == {<<>>, <<"7">>, <<"a", "7">>}

\* the hash a value gives is accepted by the do/while loop
Accepted(d) == ~template(slice(toString36(d), 2))

\* periodic random sources on which the loop of generateHash terminates
RandomStreams ==
  {rnd \in SeqsOf(RandomValues, 1, MaxDraws) : \E i \in 1..Len(rnd) : Accepted(rnd[i])}

\* the type 'hash' is in the strategy list
UsesHash(selector) == \E i \in 1..Len(selector) : selector[i] = "hash"

\* elements matching '[style]': class and id are '' when the attribute is absent
Elements ==
  { [class |-> <<"a", " ", "b">>, id |-> <<"x">>, style |-> <<"c", ":", "r">>],
    [class |-> <<"b", " ", " ", "a">>, id |-> <<>>,
     style |-> <<"c", ":", "r", ";", "c", ":", "r">>],
    [class |-> <<>>, id |-> <<"x">>, style |-> <<"m", ";", " ", ";", "c", ":", "r">>],
    [class |-> <<" ">>, id |-> <<"#", "x">>, style |-> <<>>],
    [class |-> <<>>, id |-> <<>>, style |-> <<"c", ":", "r">>] }

Decl(prop, value) == [type |-> "decl", prop |-> prop, value |-> value]

Comment == [type |-> "comment", prop |-> <<>>, value |-> <<>>]

\* rules visited by walkRules in the parsed text of the style elements; parent is
\* the node holding the rule: the root of the style sheet, or an at-rule
StyleRules ==
  { [selector |-> <<".", "b", ".", "a">>,
     nodes |-> <<Decl(<<"m">>, <<"1">>), Decl(<<"c">>, <<"r">>)>>, parent |-> "root"],
    [selector |-> <<".", "a", ">", ".", "b">>,
     nodes |-> <<Decl(<<"c">>, <<"r">>), Comment, Decl(<<"c">>, <<"r">>)>>,
     parent |-> "root"],
    [selector |-> <<".", "a", " ", ">", " ", ".", "b">>, nodes |-> <<>>, parent |-> "atrule"],
    [selector |-> <<"#", "x", " ", ",", ".", "a">>,
     nodes |-> <<Decl(<<"c">>, <<"r">>)>>, parent |-> "root"] }

(***************************************************************************)
(* extractStyles as a state machine: one step per element, then, when      *)
(* styleTags is set, one step per style rule.                              *)
(***************************************************************************)
VARIABLES
  selector,   \* options.selector
  styleTags,  \* options.styleTags
  result,     \* the array result
  pc,         \* "elements", "rules", "done" or "failed" ("call" in the single-function specifications)
  visited,    \* the elements visited so far, each with the selector derived for it
  walked,     \* the style rules visited so far
  last,       \* what the last step did
  origin,     \* for each entry of result, the loop that pushed it
  outcome,    \* how the call of extractStyles ended, with the rules it returned
  call        \* the application of a single function, with its arguments and its value

vars == <<selector, styleTags, result, pc, visited, walked, last, origin, outcome, call>>

NoCall == [fn |-> "none"]

\* entries of result equivalent to an incoming selector
Matches(res, value) == {i \in 1..Len(res) : compareSelector(res[i].selector, value)}

\* the record of a step: its kind, the incoming selector, the entries equivalent to
\* it before the step and the index findIndex gave
StepRecord(kind, res, value) ==
  [kind |-> kind, value |-> value,
   matches |-> Cardinality(Matches(res, value)),
   index |-> findIndex(res, value)]

Running == [kind |-> "running"]

\* return result
Returned(res) == [kind |-> "returned", rules |-> res]

\* the error of parse() leaves extractStyles: nothing is returned
Thrown == [kind |-> "thrown"]

Init ==
  /\ selector \in Strategies
  /\ styleTags \in BOOLEAN
  /\ result = <<>>
  /\ pc = "elements"
  /\ visited = <<>>
  /\ walked = <<>>
  /\ last = [kind |-> "start", value |-> <<>>, matches |-> 0, index |-> 0]
  /\ origin = <<>>
  /\ outcome = Running
  /\ call = NoCall

\* lines 130-145: the next element of querySelectorAll('[style]')
VisitElement ==
  /\ pc = "elements"
  /\ Len(visited) < MaxNodes
  /\ \E el \in Elements :
       \E rnd \in (IF UsesHash(selector) THEN RandomStreams ELSE {<<<<>>>>}) :
         LET value == generateSelector(el.class, el.id, selector, rnd)
         IN /\ result' = ExtractElement(result, el, value)
            /\ visited' = Append(visited, [el |-> el, value |-> value])
            /\ last' = StepRecord(IF value = <<>> THEN "skip" ELSE "element",
                                  result, value)
            /\ origin' = IF Len(result') > Len(result)
                         THEN Append(origin, "element") ELSE origin
  /\ UNCHANGED <<selector, styleTags, pc, walked, outcome, call>>

\* line 146: the loop over the elements is over
EndElements ==
  /\ pc = "elements"
  /\ pc' = IF styleTags THEN "rules" ELSE "done"
  /\ outcome' = IF styleTags THEN outcome ELSE Returned(result)
  /\ UNCHANGED <<selector, styleTags, result, visited, walked, last, origin, call>>

\* faulty variant: style elements are handled as they are met among the elements
VisitRuleInDocumentOrder ==
  /\ pc \in {"elements", "rules"}
  /\ styleTags
  /\ Len(visited) + Len(walked) < MaxNodes
  /\ \E rule \in StyleRules :
       /\ result' = ExtractRule(result, rule)
       /\ walked' = Append(walked, rule)
       /\ last' = StepRecord("rule", result, formatSelector(rule.selector))
       /\ origin' = IF Len(result') > Len(result)
                    THEN Append(origin, "rule") ELSE origin
  /\ UNCHANGED <<selector, styleTags, pc, visited, outcome, call>>

\* lines 147-162: the next rule walkRules hands to the callback
VisitRule ==
  /\ pc = "rules"
  /\ Len(visited) + Len(walked) < MaxNodes
  /\ \E rule \in StyleRules :
       /\ result' = ExtractRule(result, rule)
       /\ walked' = Append(walked, rule)
       /\ last' = StepRecord("rule", result, formatSelector(rule.selector))
       /\ origin' = IF Len(result') > Len(result)
                    THEN Append(origin, "rule") ELSE origin
  /\ UNCHANGED <<selector, styleTags, pc, visited, outcome, call>>

\* line 164: return result
EndRules ==
  /\ pc = "rules"
  /\ pc' = "done"
  /\ outcome' = Returned(result)
  /\ UNCHANGED <<selector, styleTags, result, visited, walked, last, origin, call>>

\* faulty variant: the error of parse() is caught and the rules so far are returned
ParseFailsCaught ==
  /\ pc = "rules"
  /\ pc' = "failed"
  /\ outcome' = Returned(result)
  /\ UNCHANGED <<selector, styleTags, result, visited, walked, last, origin, call>>

\* line 148: parse(el.textContent) throws on the text of the next style element
ParseFails ==
  /\ pc = "rules"
  /\ pc' = "failed"
  /\ outcome' = Thrown
  /\ UNCHANGED <<selector, styleTags, result, visited, walked, last, origin, call>>

Next == VisitElement \/ EndElements \/ VisitRule \/ EndRules \/ ParseFails

Spec == Init /\ [][Next]_vars

(***************************************************************************)
(* Specifications of single functions: Init draws the arguments, the one   *)
(* action applies the function.  The extraction itself stays idle.         *)
(***************************************************************************)
Idle ==
  /\ selector = <<"class">>
  /\ styleTags = FALSE
  /\ result = <<>>
  /\ pc = "call"
  /\ visited = <<>>
  /\ walked = <<>>
  /\ last = [kind |-> "start", value |-> <<>>, matches |-> 0, index |-> 0]
  /\ origin = <<>>
  /\ outcome = Running

IdleVars == <<selector, styleTags, result, pc, visited, walked, last, origin, outcome>>

\* class attribute texts
ClassTexts ==
  { <<>>, <<"a">>, <<"a", " ", "b">>, <<" ">>, <<".", "a">>,
    <<" ", "b", " ", " ", "a", " ">> }

\* id attribute texts
IdTexts == { <<>>, <<"x">>, <<"#", "x">>, <<" ">> }

InitGenerateSelector ==
  /\ Idle
  /\ call \in [fn : {"generateSelector"}, className : ClassTexts, id : IdTexts,
               selector : StrategyLists, rnd : RandomStreams,
               done : {FALSE}, ret : {<<>>}]

ApplyGenerateSelector ==
  /\ call.fn = "generateSelector"
  /\ ~call.done
  /\ call' = [call EXCEPT
                !.done = TRUE,
                !.ret = generateSelector(call.className, call.id, call.selector, call.rnd)]
  /\ UNCHANGED IdleVars

SpecGenerateSelector == InitGenerateSelector /\ [][ApplyGenerateSelector]_vars

\* selector texts handed to compareSelector
SelectorTexts == SeqsOf({"a", "b", ".", ">"}, 0, MaxSelLen)

InitCompareSelector ==
  /\ Idle
  /\ call \in [fn : {"compareSelector"}, selector1 : SelectorTexts,
               selector2 : SelectorTexts, done : {FALSE}, ret : {FALSE}]

ApplyCompareSelector ==
  /\ call.fn = "compareSelector"
  /\ ~call.done
  /\ call' = [call EXCEPT
                !.done = TRUE,
                !.ret = compareSelector(call.selector1, call.selector2)]
  /\ UNCHANGED IdleVars

SpecCompareSelector == InitCompareSelector /\ [][ApplyCompareSelector]_vars

\* style attribute texts handed to formatProps
StyleTexts == SeqsOf({"a", ":", ";", " "}, 0, MaxStyleLen)

InitFormatProps ==
  /\ Idle
  /\ call \in [fn : {"formatProps"}, props : StyleTexts, done : {FALSE}, ret : {<<>>}]

ApplyFormatProps ==
  /\ call.fn = "formatProps"
  /\ ~call.done
  /\ call' = [call EXCEPT !.done = TRUE, !.ret = formatProps(call.props)]
  /\ UNCHANGED IdleVars

SpecFormatProps == InitFormatProps /\ [][ApplyFormatProps]_vars

\* rules handed to format
FormatRules ==
  { [selector |-> <<".", "a">>, props |-> <<>>],
    [selector |-> <<"#", "x">>, props |-> << <<"c", ":", " ", "r">> >>],
    [selector |-> <<".", "a", " ", ">", " ", ".", "b">>,
     props |-> << <<"c", ":", " ", "r">>, <<"m">> >>] }

InitFormat ==
  /\ Idle
  /\ call \in [fn : {"format"}, styles : SeqsOf(FormatRules, 0, MaxFormatRules),
               indent : 0..MaxIndent, done : {FALSE}, ret : {<<>>}]

ApplyFormat ==
  /\ call.fn = "format"
  /\ ~call.done
  /\ call' = [call EXCEPT !.done = TRUE, !.ret = format(call.styles, call.indent)]
  /\ UNCHANGED IdleVars

SpecFormat == InitFormat /\ [][ApplyFormat]_vars

\* class attribute texts: tokens of letters separated by spaces, tabs and newlines
ClassAttributeTexts == SeqsOf({"a", "b", " ", "\t", "\n"}, 0, MaxClassLen)

InitClassStrategy ==
  /\ Idle
  /\ call \in [fn : {"classStrategy"}, className : ClassAttributeTexts,
               done : {FALSE}, ret : {<<>>}]

\* generateSelector(el.attributes.class || '', '', 'class')
ApplyClassStrategy ==
  /\ call.fn = "classStrategy"
  /\ ~call.done
  /\ call' = [call EXCEPT
                !.done = TRUE,
                !.ret = generateSelector(call.className, <<>>, <<"class">>, <<<<>>>>)]
  /\ UNCHANGED IdleVars

SpecClassStrategy == InitClassStrategy /\ [][ApplyClassStrategy]_vars

(***************************************************************************)
(* The Once handler of the plugin.  The call of extractStyles is given by  *)
(* its outcome: the rules returned, or the error that left it.             *)
(***************************************************************************)
\* a line of the CSS text is a declaration with no ':' (postcss: "Unknown word")
UnknownWord(line) ==
  /\ line # <<>>
  /\ line[Len(line)] = ";"
  /\ \A i \in 1..Len(line) : line[i] # ":"

\* parse(css) throws a CssSyntaxError
ParseThrows(css) ==
  LET lines == split(css, "\n")
  IN \E i \in 1..Len(lines) : UnknownWord(lines[i])

\* parsedRoot.nodes: one rule node for each block of the text
ParsedNodes(styles) ==
  [i \in 1..Len(styles) |->
     [type |-> "rule", selector |-> styles[i].selector, props |-> styles[i].props]]

\* faulty variant: the root is emptied before the CSS text is parsed
OnceClearsFirst(c) ==
  IF c.extract = Thrown
  THEN [c EXCEPT !.done = TRUE, !.caught = TRUE]
  ELSE IF ParseThrows(format(c.extract.rules, c.indent))
  THEN [c EXCEPT !.done = TRUE, !.caught = TRUE, !.rootAfter = <<>>]
  ELSE [c EXCEPT !.done = TRUE, !.rootAfter = ParsedNodes(c.extract.rules)]

\* the try block and its catch: root.error() builds an error and returns it, it
\* neither throws nor records a warning
OnceHandler(c) ==
  IF c.extract = Thrown
  THEN [c EXCEPT !.done = TRUE, !.caught = TRUE]
  ELSE IF ParseThrows(format(c.extract.rules, c.indent))
  THEN [c EXCEPT !.done = TRUE, !.caught = TRUE]
  ELSE [c EXCEPT !.done = TRUE, !.rootAfter = ParsedNodes(c.extract.rules)]

\* the nodes of the root handed to Once
Roots ==
  { <<>>, << [type |-> "rule", selector |-> <<".", "b">>, props |-> <<>>] >> }

InitOnce ==
  /\ Idle
  /\ \E root \in Roots :
       call \in [fn : {"Once"}, root : {root}, rootAfter : {root},
                 extract : {Thrown}
                           \cup {Returned(st) : st \in SeqsOf(FormatRules, 0, MaxFormatRules)},
                 indent : 1..MaxIndent,
                 done : {FALSE}, caught : {FALSE}, raised : {FALSE}, warnings : {<<>>}]

ApplyOnce ==
  /\ call.fn = "Once"
  /\ ~call.done
  /\ call' = OnceHandler(call)
  /\ UNCHANGED IdleVars

SpecOnce == InitOnce /\ [][ApplyOnce]_vars

(***************************************************************************)
(* Properties.                                                             *)
(***************************************************************************)
\* the step just taken folded an element or a rule into result
Folded == last.kind \in {"element", "rule"}

\* C1: result never holds two entries whose selectors compareSelector judges
\* equivalent, and at every merge at most one entry is equivalent to the
\* incoming selector.
NoEquivalentEntries ==
  /\ \A i, j \in 1..Len(result) :
       i # j => ~compareSelector(result[i].selector, result[j].selector)
  /\ last.matches <= 1

\* C1 witness: a style rule was merged into the entry an element created, with
\* another entry beside it
MergedIntoOneOfSeveral ==
  /\ last.kind = "rule"
  /\ last.matches = 1
  /\ Len(result) >= 2
  /\ visited # <<>>

\* a property list is ascending with no two identical strings
StrictlyAscending(props) ==
  \A k \in 1..(Len(props) - 1) : StrLess(props[k], props[k + 1])

\* C2: in every state of result, each rule's property list is sorted ascending
\* and contains no two identical strings.
PropsSortedAndDistinct ==
  \A i \in 1..Len(result) : StrictlyAscending(result[i].props)

\* the elements visited all derived non-empty, equivalent selectors
AllEquivalent ==
  /\ Len(visited) >= 2
  /\ \A i \in 1..Len(visited) : visited[i].value # <<>>
  /\ \A i, j \in 1..Len(visited) : compareSelector(visited[i].value, visited[j].value)

\* the loop over the elements run on a sequence of visited elements
RECURSIVE FoldElements(_, _)
FoldElements(res, seq) ==
  IF seq = <<>> THEN res
  ELSE FoldElements(ExtractElement(res, Head(seq).el, Head(seq).value), Tail(seq))

\* C3: for elements whose derived selectors are all equivalent, the property
\* list of their single merged rule is the same for every order of visit.
\* (Stated for the strategies that derive the selector from the element alone:
\* under hash the selectors also vary with the random source.)
MergeOrderIndependent ==
  (walked = <<>> /\ ~UsesHash(selector) /\ AllEquivalent) =>
    \A p \in Permutations(1..Len(visited)) :
      LET other == FoldElements(<<>>, [i \in 1..Len(visited) |-> visited[p[i]]])
      IN other[1].props = result[1].props

\* the selector one strategy produces on its own
StrategyResult(type, className, id, rnd) ==
  CASE type = "class" -> formatClass(className)
    [] type = "id" -> formatId(id)
    [] type = "hash" -> <<".">> \o generateHash(rnd, 0).hash

\* the result of the first strategy in list order whose result is non-empty
RECURSIVE FirstNonEmpty(_, _, _, _)
FirstNonEmpty(types, className, id, rnd) ==
  IF types = <<>> THEN <<>>
  ELSE IF StrategyResult(Head(types), className, id, rnd) # <<>>
  THEN StrategyResult(Head(types), className, id, rnd)
  ELSE FirstNonEmpty(Tail(types), className, id, rnd)

GenerateSelectorDone == call.fn = "generateSelector" /\ call.done

\* C4: generateSelector returns the selector of the first strategy in list
\* order whose result is non-empty; a list containing hash never yields the
\* empty selector.
FirstNonEmptyStrategyWins ==
  GenerateSelectorDone =>
    /\ call.ret = FirstNonEmpty(call.selector, call.className, call.id, call.rnd)
    /\ UsesHash(call.selector) => call.ret # <<>>

\* the attribute text holds something besides white space
Present(text) == trim(text) # <<>>

\* C5: with the strategy list [class, id], an element with a class and an id
\* yields the class-derived selector, an element with only an id the
\* id-derived selector, an element with neither no entry in result.
ClassThenIdFallback ==
  selector = <<"class", "id">> =>
    /\ \A i \in 1..Len(visited) :
         LET el == visited[i].el
             value == visited[i].value
         IN /\ (Present(el.class) /\ Present(el.id)) =>
                 /\ value = formatClass(el.class)
                 /\ value # <<>>
            /\ (~Present(el.class) /\ Present(el.id)) =>
                 /\ value = formatId(el.id)
                 /\ value # <<>>
            /\ (~Present(el.class) /\ ~Present(el.id)) => value = <<>>
            /\ value # <<>> => Matches(result, value) # {}
    /\ \A j \in 1..Len(result) :
         \/ \E i \in 1..Len(visited) : visited[i].value = result[j].selector
         \/ \E i \in 1..Len(walked) :
              formatSelector(walked[i].selector) = result[j].selector

\* C5 witness: the three kinds of element were visited under [class, id]
ClassThenIdAllKinds ==
  /\ selector = <<"class", "id">>
  /\ \E i \in 1..Len(visited) :
       Present(visited[i].el.class) /\ Present(visited[i].el.id)
  /\ \E i \in 1..Len(visited) :
       ~Present(visited[i].el.class) /\ Present(visited[i].el.id)
  /\ \E i \in 1..Len(visited) :
       ~Present(visited[i].el.class) /\ ~Present(visited[i].el.id)

\* the characters the claim lists: white space, '>', '+', '~', '(', ')', ','
ContainsGrouping(s) ==
  \E i \in 1..Len(s) : s[i] \in {" ", "\t", "\n", ">", "+", "~", "(", ")", ","}

\* the selector whose '.'-separated tokens are those of s in the order p
Reordered(s, p) ==
  LET tokens == split(s, ".")
  IN join([i \in 1..Len(tokens) |-> tokens[p[i]]], <<".">>)

CompareSelectorDone == call.fn = "compareSelector" /\ call.done

\* C6: compareSelector(A, B) holds exactly when either selector contains a
\* grouping character and A is identical to B, or neither does and the sorted
\* lists of their '.'-separated tokens are equal; it is symmetric, and for
\* combinator-free selectors unaffected by reordering the tokens of either side.
CompareSelectorRule ==
  CompareSelectorDone =>
    LET A == call.selector1
        B == call.selector2
    IN /\ call.ret = IF ContainsGrouping(A) \/ ContainsGrouping(B)
                     THEN A = B
                     ELSE sort(split(A, ".")) = sort(split(B, "."))
       /\ call.ret = compareSelector(B, A)
       /\ (~ContainsGrouping(A) /\ ~ContainsGrouping(B)) =>
            /\ \A p \in Permutations(1..Len(split(A, "."))) :
                 compareSelector(Reordered(A, p), B) = call.ret
            /\ \A p \in Permutations(1..Len(split(B, "."))) :
                 compareSelector(A, Reordered(B, p)) = call.ret

\* C6 witness: two different combinator-free selectors were judged equivalent
ReorderedJudgedEquivalent ==
  /\ CompareSelectorDone
  /\ call.ret
  /\ call.selector1 # call.selector2
  /\ Len(split(call.selector1, ".")) >= 3

\* C7: once a rule is in result its index and selector never change and it is
\* never removed: a step appends one rule at the end or replaces the property
\* list of the one rule findIndex gave, leaving all other rules untouched.
RulesKeepPlace ==
  [][/\ \A i \in 1..Len(result) :
          /\ i <= Len(result')
          /\ result'[i].selector = result[i].selector
          /\ i # last'.index => result'[i] = result[i]
     /\ \/ Len(result') = Len(result)
        \/ /\ Len(result') = Len(result) + 1
           /\ \A i \in 1..Len(result) : result'[i] = result[i]]_vars

\* C7 witness: a step merged into an entry that is not the last one
MergedBeforeLast ==
  /\ Folded
  /\ last.index >= 1
  /\ last.index < Len(result)
  /\ Len(result[last.index].props) >= 2

\* a fragment split at its first ':' only, both sides trimmed
SplitAtFirstColon(frag) ==
  IF \E i \in 1..Len(frag) : frag[i] = ":"
  THEN LET i == CHOOSE k \in 1..Len(frag) :
                  frag[k] = ":" /\ \A j \in 1..(k - 1) : frag[j] # ":"
       IN trim(SubSeq(frag, 1, i - 1)) \o <<":", " ">>
          \o trim(SubSeq(frag, i + 1, Len(frag)))
  ELSE trim(frag)

RECURSIVE DeclarationsOf(_)
DeclarationsOf(frags) ==
  IF frags = <<>> THEN <<>>
  ELSE (IF trim(Head(frags)) # <<>> THEN <<SplitAtFirstColon(Head(frags))>> ELSE <<>>)
       \o DeclarationsOf(Tail(frags))

\* C8: formatProps returns the text split on ';', blank fragments dropped, each
\* fragment split at its first ':' only, trimmed and joined as 'name: value', a
\* fragment with no ':' kept as one string, and the list sorted.
FormatPropsSplitsAtFirstColon ==
  (call.fn = "formatProps" /\ call.done) =>
    call.ret = sort(DeclarationsOf(split(call.props, ";")))

\* s matches ^\.[a-z][a-z0-9]*$
IsHashSelector(s) ==
  /\ Len(s) >= 2
  /\ s[1] = "."
  /\ IsLetter(s[2])
  /\ \A i \in 3..Len(s) : IsLetter(s[i]) \/ IsDigit(s[i])

\* C9: every selector the hash strategy produces matches ^\.[a-z][a-z0-9]*$,
\* whatever values the random source returns.
HashSelectorValid ==
  (GenerateSelectorDone /\ call.selector = <<"hash">>) => IsHashSelector(call.ret)

\* C10: when the selector derived for an element is empty the element is
\* skipped: result is left as it was and the loop goes on to the next element.
SkipLeavesResult ==
  [][(visited' # visited /\ visited'[Len(visited')].value = <<>>) =>
       /\ result' = result
       /\ pc' = "elements"]_vars

\* C10 witness: an element was skipped with rules already in result, and a
\* later element was folded in
SkippedThenContinued ==
  \E i \in 1..(Len(visited) - 1) :
    /\ i >= 2
    /\ visited[i].value = <<>>
    /\ visited[i + 1].value # <<>>
    /\ result # <<>>

\* C11: with styleTags set, every element is folded into result before any
\* style rule is, so every rule first created from an element precedes every
\* rule first created from a style block; with styleTags unset the style
\* elements contribute nothing.
InlineBeforeStyleRules ==
  /\ Len(origin) = Len(result)
  /\ walked # <<>> => (styleTags /\ pc # "elements")
  /\ \A i, j \in 1..Len(origin) :
       (origin[i] = "element" /\ origin[j] = "rule") => i < j
  /\ ~styleTags =>
       /\ walked = <<>>
       /\ \A i \in 1..Len(origin) : origin[i] = "element"
       /\ pc = "done" => outcome = Returned(FoldElements(<<>>, visited))

\* C11 witness: the rules returned hold one pushed for an element and, after it,
\* one pushed for a style rule
InlineThenStyleRuleReturned ==
  /\ styleTags
  /\ pc = "done"
  /\ \E i, j \in 1..Len(origin) : origin[i] = "element" /\ origin[j] = "rule"

\* the concatenation of a sequence of strings
RECURSIVE Concat(_)
Concat(list) == IF list = <<>> THEN <<>> ELSE Head(list) \o Concat(Tail(list))

\* the text of one rule: the header line, a line for each property, the brace
RuleBlock(style, indent) ==
  style.selector \o <<" ", "{", "\n">>
  \o Concat([i \in 1..Len(style.props) |->
               [k \in 1..indent |-> " "] \o style.props[i] \o <<";", "\n">>])
  \o <<"}">>

\* the blocks of the rules in order, a blank line between two of them, and a
\* newline after the last
RECURSIVE RuleBlocks(_, _)
RuleBlocks(styles, indent) ==
  IF styles = <<>> THEN <<>>
  ELSE RuleBlock(Head(styles), indent)
       \o (IF Len(styles) = 1 THEN <<"\n">>
           ELSE <<"\n", "\n">> \o RuleBlocks(Tail(styles), indent))

FormatDone == call.fn = "format" /\ call.done

\* C12: format emits for each rule in order '<selector> {', one line per
\* property made of indent spaces, the property and ';', then '}', with one
\* blank line between consecutive rules and a newline after the last; a rule
\* with no property still emits its header and brace, and no rule at all gives
\* the empty string.
FormatEmitsBlocks ==
  FormatDone =>
    /\ call.ret = RuleBlocks(call.styles, call.indent)
    /\ call.styles = <<>> => call.ret = <<>>

\* C12 witness: two rules or more were formatted, one of them with no property,
\* with an indent of one space
FormattedSeveralRules ==
  /\ FormatDone
  /\ Len(call.styles) >= 2
  /\ call.indent = 1
  /\ \E i \in 1..Len(call.styles) : call.styles[i].props = <<>>
  /\ \E i \in 1..Len(call.styles) : Len(call.styles[i].props) = 2

\* C13: with styleTags set, when the CSS parser fails on the text of a style
\* block, extractStyles ends by the error leaving it and returns no rules:
\* neither the rules of the elements nor those of earlier style blocks.
ParseFailureReturnsNothing ==
  /\ pc = "failed" => (styleTags /\ outcome = Thrown)
  /\ outcome = Thrown => pc = "failed"
  /\ outcome.kind = "returned" => (pc = "done" /\ outcome.rules = result)

\* C13 witness: the parser failed with rules of elements and of an earlier
\* style block already in result
ParseFailedAfterRules ==
  /\ pc = "failed"
  /\ \E i, j \in 1..Len(origin) : origin[i] = "element" /\ origin[j] = "rule"

\* the rules hold a declaration with no ':'
HasBareDeclaration(styles) ==
  \E i \in 1..Len(styles) :
    \E k \in 1..Len(styles[i].props) :
      \A n \in 1..Len(styles[i].props[k]) : styles[i].props[k][n] # ":"

\* the extraction failed, or the parse of the serialized CSS does
OnceFails ==
  \/ call.extract = Thrown
  \/ call.extract.kind = "returned" /\ HasBareDeclaration(call.extract.rules)

\* C14: when extraction or the parse of the serialized CSS fails, Once leaves
\* the root as it was on entry, ends without raising and records no warning.
OnceFailureLeavesRoot ==
  (call.fn = "Once" /\ call.done /\ OnceFails) =>
    /\ call.caught
    /\ call.rootAfter = call.root
    /\ ~call.raised
    /\ call.warnings = <<>>

\* C14 witness: the parse of the serialized CSS failed on a declaration with no
\* ':' while the root held a node
OnceFailedOnBareDeclaration ==
  /\ call.fn = "Once"
  /\ call.done
  /\ call.root # <<>>
  /\ call.extract.kind = "returned"
  /\ HasBareDeclaration(call.extract.rules)

RECURSIVE FoldTopLevelRules(_, _)
FoldTopLevelRules(res, rules) ==
  IF rules = <<>> THEN res
  ELSE FoldTopLevelRules(IF Head(rules).parent = "root"
                         THEN ExtractRule(res, Head(rules)) ELSE res,
                         Tail(rules))

\* C16: with styleTags set, only the top-level rules of a style block produce
\* or update entries of result; a rule nested inside another node produces no
\* entry and changes no property list.
OnlyTopLevelRulesFolded ==
  result = FoldTopLevelRules(FoldElements(<<>>, visited), walked)

\* the tokens of a text: its maximal runs of characters that are not white space
RECURSIVE TokensOf(_, _)
TokensOf(text, token) ==
  IF text = <<>> THEN (IF token = <<>> THEN <<>> ELSE <<token>>)
  ELSE IF IsSpace(Head(text))
  THEN (IF token = <<>> THEN <<>> ELSE <<token>>) \o TokensOf(Tail(text), <<>>)
  ELSE TokensOf(Tail(text), Append(token, Head(text)))

\* '.t1.t2...tn' for the tokens t1..tn, the empty selector for no token
DottedTokens(tokens) ==
  IF tokens = <<>> THEN <<>> ELSE <<".">> \o join(tokens, <<".">>)

\* C17: for a class attribute of tokens separated and surrounded by runs of
\* spaces, tabs and newlines the class strategy returns '.t1.t2...tn', with no
\* white space in it; an empty or blank class attribute gives the empty selector.
ClassTokensJoinedByDots ==
  (call.fn = "classStrategy" /\ call.done) =>
    /\ call.ret = DottedTokens(TokensOf(call.className, <<>>))
    /\ \A i \in 1..Len(call.ret) : ~IsSpace(call.ret[i])

=============================================================================
